---------------------------- MODULE Spec2Model ----------------------------
(***************************************************************************)
(* IBAN validation and decomposition (src/src/utils/ibanUtils.ts).          *)
(*                                                                         *)
(* A JavaScript string is modelled as a sequence of one-character strings, *)
(* so "DE89" is <<"D","E","8","9">> and the empty string is <<>>.  The     *)
(* functions of ibanUtils.ts are pure; the state machine is a caller that  *)
(* invokes one of them on an input and later takes the result away.        *)
(*                                                                         *)
(*   iban        the argument of the call                                  *)
(*   call        the function called, or "idle"                            *)
(*   formatted   the string formatIban returned                            *)
(*   valid       the boolean validateIban returned                         *)
(*   country     the string getCountryFromIban returned                    *)
(*   validation  the object getValidationMessage returned                  *)
(*   info        the object extractBankAccountInfo returned                *)
(*                                                                         *)
(* A result variable means something only while `call' names its function. *)
(***************************************************************************)
EXTENDS Naturals, Sequences, FiniteSets

VARIABLES iban, call, formatted, valid, country, validation, info

vars == <<iban, call, formatted, valid, country, validation, info>>

-----------------------------------------------------------------------------
(* Characters *)

DigitSeq == <<"0","1","2","3","4","5","6","7","8","9">>

UpperSeq == <<"A","B","C","D","E","F","G","H","I","J","K","L","M","N","O","P","Q","R","S","T","U","V","W","X","Y","Z">>

LowerSeq == <<"a","b","c","d","e","f","g","h","i","j","k","l","m","n","o","p","q","r","s","t","u","v","w","x","y","z">>

Range(f) == {f[i] : i \in DOMAIN f}

Digit == Range(DigitSeq)

Upper == Range(UpperSeq)

Lower == Range(LowerSeq)

\* the characters of the model's inputs that the regular expression class \s matches
Whitespace == {" ", "\t"}

\* characters that are neither alphanumeric nor whitespace
Punctuation == {"-", "!"}

IndexOf(seq, c) == CHOOSE i \in DOMAIN seq : seq[i] = c

\* String.prototype.charCodeAt(0) of a one-character string (UTF-16 code unit)
CharCode(c) ==
    IF c \in Upper THEN 64 + IndexOf(UpperSeq, c)
    ELSE IF c \in Lower THEN 96 + IndexOf(LowerSeq, c)
    ELSE IF c \in Digit THEN 47 + IndexOf(DigitSeq, c)
    ELSE IF c = " " THEN 32
    ELSE IF c = "\t" THEN 9
    ELSE IF c = "-" THEN 45
    ELSE 33

\* the decimal digit a digit character stands for
DigitValue(c) == IndexOf(DigitSeq, c) - 1

\* Number.prototype.toString() of a natural number: its decimal numeral
RECURSIVE NumberToString(_)
NumberToString(n) ==
    IF n < 10 THEN <<DigitSeq[n + 1]>>
    ELSE NumberToString(n \div 10) \o <<DigitSeq[(n % 10) + 1]>>

-----------------------------------------------------------------------------
(* String primitives *)

Min(a, b) == IF a < b THEN a ELSE b

\* String.prototype.slice(start, end) for 0 <= start, 0 <= end
Slice(s, start, end) ==
    IF start >= Min(end, Len(s)) THEN <<>>
    ELSE SubSeq(s, start + 1, Min(end, Len(s)))

\* String.prototype.slice(start): to the end of the string
SliceFrom(s, start) == Slice(s, start, Len(s))

UpperChar(c) == IF c \in Lower THEN UpperSeq[IndexOf(LowerSeq, c)] ELSE c

\* String.prototype.toUpperCase() (every character of the inputs maps to one character)
ToUpperCase(s) == [i \in DOMAIN s |-> UpperChar(s[i])]

IsNotWhitespace(c) == c \notin Whitespace

\* s.replace(/\s/g, '')
RemoveWhitespace(s) == SelectSeq(s, IsNotWhitespace)

IsAlphanumeric(c) == c \in Upper \cup Lower \cup Digit

\* the replacement without the g flag: only the first match is removed
MutRemoveFirstNonAlphanumeric(s) ==
    LET bad == {i \in DOMAIN s : ~IsAlphanumeric(s[i])}
    IN  IF bad = {} THEN s
        ELSE LET k == CHOOSE i \in bad : \A j \in bad : i <= j
             IN  SubSeq(s, 1, k - 1) \o SubSeq(s, k + 1, Len(s))

\* s.replace(/[^a-zA-Z0-9]/g, '')
RemoveNonAlphanumeric(s) == SelectSeq(s, IsAlphanumeric)

RECURSIVE TrimStart(_)
TrimStart(s) ==
    IF s # <<>> /\ Head(s) \in Whitespace THEN TrimStart(Tail(s)) ELSE s

RECURSIVE TrimEnd(_)
TrimEnd(s) ==
    IF s # <<>> /\ s[Len(s)] \in Whitespace THEN TrimEnd(SubSeq(s, 1, Len(s) - 1)) ELSE s

\* String.prototype.trim()
Trim(s) == TrimEnd(TrimStart(s))

\* /^[A-Z]{2}[0-9A-Z]{2,}$/.test(s)
MatchesBasicFormat(s) ==
    /\ Len(s) >= 4
    /\ s[1] \in Upper
    /\ s[2] \in Upper
    /\ \A i \in 3..Len(s) : s[i] \in Digit \cup Upper

\* /^[A-Z]{2}/.test(s)
StartsWithTwoLetters(s) ==
    /\ Len(s) >= 2
    /\ s[1] \in Upper
    /\ s[2] \in Upper

\* s.replace(/(.{4})(?=.)/g, '$1 '): a space after every group of four
\* characters that another character follows
RECURSIVE SpaceEveryFour(_)
SpaceEveryFour(s) ==
    IF Len(s) <= 4 THEN s
    ELSE SubSeq(s, 1, 4) \o <<" ">> \o SpaceEveryFour(SubSeq(s, 5, Len(s)))

-----------------------------------------------------------------------------
(* formatIban *)

\* line 10: the cleaning step of formatIban
CleanedForFormat(s) == ToUpperCase(RemoveNonAlphanumeric(s))

formatIban(s) == SpaceEveryFour(CleanedForFormat(s))

-----------------------------------------------------------------------------
(* validateIban *)

\* only the country code moved to the end
MutRearrangedCountryOnly(cleanedIban) ==
    SliceFrom(cleanedIban, 2) \o Slice(cleanedIban, 0, 2)

\* line 38
Rearranged(cleanedIban) == SliceFrom(cleanedIban, 4) \o Slice(cleanedIban, 0, 4)

\* letters counted from A = 1
MutConvertCharFromOne(char) ==
    LET code == CharCode(char)
    IN  IF code >= 65 /\ code <= 90 THEN NumberToString(code - 64) ELSE <<char>>

\* lines 42-44: the callback of map
ConvertChar(char) ==
    LET code == CharCode(char)
    IN  IF code >= 65 /\ code <= 90 THEN NumberToString(code - 55) ELSE <<char>>

\* lines 41-45: split(''), map, join('')
RECURSIVE Numeric(_)
Numeric(rearranged) ==
    IF rearranged = <<>> THEN <<>>
    ELSE ConvertChar(Head(rearranged)) \o Numeric(Tail(rearranged))

\* BigInt(numeric) % m for a string of decimal digits.  BigInt(numeric) is
\* the exact integer sum of digit[i] * 10^(n-i); its remainder is taken
\* term by term from the least significant digit, `weight' being 10^(n-i) % m,
\* because the integers of the model checker are 32 bits wide and the value
\* has up to 68 digits.
RECURSIVE BigIntMod(_, _, _)
BigIntMod(numeric, weight, m) ==
    IF numeric = <<>> THEN 0
    ELSE LET n == Len(numeric)
         IN  (DigitValue(numeric[n]) * weight
                + BigIntMod(SubSeq(numeric, 1, n - 1), (weight * 10) % m, m)) % m

\* the remainder compared with <= 1 in place of === 1
MutValidateIbanAtMostOne(s) ==
    IF s = <<>> THEN FALSE
    ELSE LET cleanedIban == ToUpperCase(RemoveWhitespace(s))
         IN  IF ~MatchesBasicFormat(cleanedIban) THEN FALSE
             ELSE IF Len(cleanedIban) < 15 \/ Len(cleanedIban) > 34 THEN FALSE
             ELSE BigIntMod(Numeric(Rearranged(cleanedIban)), 1, 97) <= 1

validateIban(s) ==
    IF s = <<>> THEN FALSE
    ELSE LET cleanedIban == ToUpperCase(RemoveWhitespace(s))
         IN  IF ~MatchesBasicFormat(cleanedIban) THEN FALSE
             ELSE IF Len(cleanedIban) < 15 \/ Len(cleanedIban) > 34 THEN FALSE
             ELSE BigIntMod(Numeric(Rearranged(cleanedIban)), 1, 97) = 1

-----------------------------------------------------------------------------
(* getCountryFromIban *)

getCountryFromIban(s) ==
    IF s = <<>> \/ Len(s) < 2 THEN <<>>
    ELSE Slice(ToUpperCase(Trim(s)), 0, 2)

-----------------------------------------------------------------------------
(* getValidationMessage *)

MsgEmpty == "Please enter an IBAN"

MsgTooShort == "IBAN is too short"

MsgTooLong == "IBAN is too long"

MsgCountryCode == "IBAN must start with a country code (2 letters)"

MsgValid == "Valid IBAN"

MsgInvalid == "Invalid IBAN."

\* the country code checked before the length
MutGetValidationMessageCountryFirst(s) ==
    IF s = <<>> THEN [isValid |-> FALSE, message |-> MsgEmpty]
    ELSE LET cleanedIban == RemoveWhitespace(s)
         IN  IF ~StartsWithTwoLetters(ToUpperCase(cleanedIban))
                 THEN [isValid |-> FALSE, message |-> MsgCountryCode]
             ELSE IF Len(cleanedIban) < 15
                 THEN [isValid |-> FALSE, message |-> MsgTooShort]
             ELSE IF Len(cleanedIban) > 34
                 THEN [isValid |-> FALSE, message |-> MsgTooLong]
             ELSE IF validateIban(cleanedIban)
                 THEN [isValid |-> TRUE, message |-> MsgValid]
             ELSE [isValid |-> FALSE, message |-> MsgInvalid]

\* the length of the argument measured, not the length of cleanedIban
MutGetValidationMessageRawLength(s) ==
    IF s = <<>> THEN [isValid |-> FALSE, message |-> MsgEmpty]
    ELSE LET cleanedIban == RemoveWhitespace(s)
         IN  IF Len(s) < 15
                 THEN [isValid |-> FALSE, message |-> MsgTooShort]
             ELSE IF Len(s) > 34
                 THEN [isValid |-> FALSE, message |-> MsgTooLong]
             ELSE IF ~StartsWithTwoLetters(ToUpperCase(cleanedIban))
                 THEN [isValid |-> FALSE, message |-> MsgCountryCode]
             ELSE IF validateIban(cleanedIban)
                 THEN [isValid |-> TRUE, message |-> MsgValid]
             ELSE [isValid |-> FALSE, message |-> MsgInvalid]

getValidationMessage(s) ==
    IF s = <<>> THEN [isValid |-> FALSE, message |-> MsgEmpty]
    ELSE LET cleanedIban == RemoveWhitespace(s)
         IN  IF Len(cleanedIban) < 15
                 THEN [isValid |-> FALSE, message |-> MsgTooShort]
             ELSE IF Len(cleanedIban) > 34
                 THEN [isValid |-> FALSE, message |-> MsgTooLong]
             ELSE IF ~StartsWithTwoLetters(ToUpperCase(cleanedIban))
                 THEN [isValid |-> FALSE, message |-> MsgCountryCode]
             ELSE IF validateIban(cleanedIban)
                 THEN [isValid |-> TRUE, message |-> MsgValid]
             ELSE [isValid |-> FALSE, message |-> MsgInvalid]

-----------------------------------------------------------------------------
(* extractBankAccountInfo *)

MsgCannotExtract == "Invalid IBAN. Cannot extract account information."

MsgExtracted == "Successfully extracted bank account information"

MsgPartial == "Partial information extracted due to unknown country format"

\* the generic layout applied to every IBAN
GenericFields(cleanedIban) ==
    [bankCode |-> Slice(cleanedIban, 4, 8),
     branchCode |-> <<>>,
     accountNumber |-> SliceFrom(cleanedIban, 8)]

\* the French account number taken to the end of the string
MutCountryFieldsFrenchAccount(cleanedIban, countryCode) ==
    IF countryCode = <<"D","E">> /\ Len(cleanedIban) = 22
    THEN [bankCode |-> Slice(cleanedIban, 4, 12),
          branchCode |-> <<>>,
          accountNumber |-> Slice(cleanedIban, 12, 22)]
    ELSE IF countryCode = <<"F","R">> /\ Len(cleanedIban) = 27
    THEN [bankCode |-> Slice(cleanedIban, 4, 9),
          branchCode |-> Slice(cleanedIban, 9, 14),
          accountNumber |-> SliceFrom(cleanedIban, 14)]
    ELSE IF countryCode = <<"G","B">> /\ Len(cleanedIban) = 22
    THEN [bankCode |-> Slice(cleanedIban, 4, 8),
          branchCode |-> Slice(cleanedIban, 8, 14),
          accountNumber |-> Slice(cleanedIban, 14, 22)]
    ELSE IF countryCode \in {<<"D","E">>, <<"F","R">>, <<"G","B">>}
    THEN [bankCode |-> <<>>, branchCode |-> <<>>, accountNumber |-> <<>>]
    ELSE GenericFields(cleanedIban)

\* a registered country with another length falls through to the generic layout
MutCountryFieldsFallThrough(cleanedIban, countryCode) ==
    IF countryCode = <<"D","E">> /\ Len(cleanedIban) = 22
    THEN [bankCode |-> Slice(cleanedIban, 4, 12),
          branchCode |-> <<>>,
          accountNumber |-> Slice(cleanedIban, 12, 22)]
    ELSE IF countryCode = <<"F","R">> /\ Len(cleanedIban) = 27
    THEN [bankCode |-> Slice(cleanedIban, 4, 9),
          branchCode |-> Slice(cleanedIban, 9, 14),
          accountNumber |-> Slice(cleanedIban, 14, 25)]
    ELSE IF countryCode = <<"G","B">> /\ Len(cleanedIban) = 22
    THEN [bankCode |-> Slice(cleanedIban, 4, 8),
          branchCode |-> Slice(cleanedIban, 8, 14),
          accountNumber |-> Slice(cleanedIban, 14, 22)]
    ELSE GenericFields(cleanedIban)

\* lines 118-156: the switch over the country code; the three locals start empty
CountryFields(cleanedIban, countryCode) ==
    LET none == [bankCode |-> <<>>, branchCode |-> <<>>, accountNumber |-> <<>>]
    IN  IF countryCode = <<"D","E">> THEN
            IF Len(cleanedIban) = 22
            THEN [bankCode |-> Slice(cleanedIban, 4, 12),
                  branchCode |-> <<>>,
                  accountNumber |-> Slice(cleanedIban, 12, 22)]
            ELSE none
        ELSE IF countryCode = <<"F","R">> THEN
            IF Len(cleanedIban) = 27
            THEN [bankCode |-> Slice(cleanedIban, 4, 9),
                  branchCode |-> Slice(cleanedIban, 9, 14),
                  accountNumber |-> Slice(cleanedIban, 14, 25)]
            ELSE none
        ELSE IF countryCode = <<"G","B">> THEN
            IF Len(cleanedIban) = 22
            THEN [bankCode |-> Slice(cleanedIban, 4, 8),
                  branchCode |-> Slice(cleanedIban, 8, 14),
                  accountNumber |-> Slice(cleanedIban, 14, 22)]
            ELSE none
        ELSE
            IF Len(cleanedIban) >= 15
            THEN [bankCode |-> Slice(cleanedIban, 4, 8),
                  branchCode |-> <<>>,
                  accountNumber |-> SliceFrom(cleanedIban, 8)]
            ELSE none

\* line 164: a non-empty string is truthy
ExtractMessage(bankCode) == IF bankCode # <<>> THEN MsgExtracted ELSE MsgPartial

\* the fields sliced before the IBAN is validated, and returned either way
MutExtractSlicesFirst(s) ==
    LET cleanedIban == ToUpperCase(RemoveWhitespace(s))
        countryCode == getCountryFromIban(cleanedIban)
        isValid     == validateIban(cleanedIban)
        f           == CountryFields(cleanedIban, countryCode)
    IN  [isValid |-> isValid, countryCode |-> countryCode,
         bankCode |-> f.bankCode, branchCode |-> f.branchCode,
         accountNumber |-> f.accountNumber,
         message |-> IF isValid THEN ExtractMessage(f.bankCode) ELSE MsgCannotExtract]

extractBankAccountInfo(s) ==
    LET cleanedIban == ToUpperCase(RemoveWhitespace(s))
        countryCode == getCountryFromIban(cleanedIban)
        isValid     == validateIban(cleanedIban)
    IN  IF ~isValid
        THEN [isValid |-> FALSE, countryCode |-> countryCode, bankCode |-> <<>>,
              branchCode |-> <<>>, accountNumber |-> <<>>,
              message |-> MsgCannotExtract]
        ELSE LET f == CountryFields(cleanedIban, countryCode)
             IN  [isValid |-> TRUE, countryCode |-> countryCode,
                  bankCode |-> f.bankCode, branchCode |-> f.branchCode,
                  accountNumber |-> f.accountNumber,
                  message |-> ExtractMessage(f.bankCode)]

-----------------------------------------------------------------------------
(* The inputs the caller draws from *)

\* README.md lines 34-36, without the spaces
DE_IBAN == <<"D","E","8","9","3","7","0","4","0","0","4","4","0","5","3","2","0","1","3","0","0","0">>

FR_IBAN == <<"F","R","1","4","2","0","0","4","1","0","1","0","0","5","0","5","0","0","0","1","3","M","0","2","6","0","6">>

GB_IBAN == <<"G","B","2","9","N","W","B","K","6","0","1","6","1","3","3","1","9","2","6","8","1","9">>

Canonical == {DE_IBAN, FR_IBAN, GB_IBAN}

\* how many characters past the longest accepted length (34) an input may have
MaxOver == 2

UpperAlnum == Digit \cup Upper

\* every canonical IBAN with the character at one position replaced
Substitutions ==
    UNION {{[s EXCEPT ![i] = c] : i \in 1..Len(s), c \in UpperAlnum} : s \in Canonical}

\* account parts (the characters after the country code and check digits)
\* of 11, 14, 18, 18, 23, 30 and 31 characters
Bbans ==
    { SliceFrom(DE_IBAN, 4), SliceFrom(FR_IBAN, 4), SliceFrom(GB_IBAN, 4),
      <<"A","B","N","A","0","4","1","7","1","6","4","3","0","0">>,
      <<"1","2","3","4","5","6","7","8","9","0","1">>,
      <<"A","2","3","4","5","6","7","8","9","0","1","2","3","4","5","6","7","8","9","0","1","2","3","4","5","6","7","8","9","Z">>,
      <<"1","2","3","4","5","6","7","8","9","0","1","2","3","4","5","6","7","8","9","0","1","2","3","4","5","6","7","8","9","0","1">> }

\* registered and unregistered country codes, and two prefixes that are no country code
Prefixes == { <<"D","E">>, <<"F","R">>, <<"G","B">>, <<"N","L">>, <<"X","K">>,
              <<"D","3">>, <<"4","E">> }

\* every prefix with every pair of check digits before every account part:
\* for each country code and account part at least one pair passes MOD 97
Composed ==
    { p \o <<k1, k2>> \o b : p \in Prefixes, k1 \in Digit, k2 \in Digit, b \in Bbans }

\* the first n characters of 0 1 2 ... 9 0 1 ...
Filler(n) == [i \in 1..n |-> DigitSeq[((i - 1) % 10) + 1]]

\* strings of every length from 0 to 34 + MaxOver, with and without two leading letters
Truncations ==
    { Slice(long, 0, n) :
        long \in { FR_IBAN \o Filler(34 + MaxOver), <<"4","2">> \o Filler(34 + MaxOver) },
        n \in 0..(34 + MaxOver) }

LowerChar(c) == IF c \in Upper THEN LowerSeq[IndexOf(UpperSeq, c)] ELSE c

ToLowerCase(s) == [i \in DOMAIN s |-> LowerChar(s[i])]

\* sep after every group of four characters that another character follows
RECURSIVE Grouped(_, _)
Grouped(s, sep) ==
    IF Len(s) <= 4 THEN s
    ELSE SubSeq(s, 1, 4) \o <<sep>> \o Grouped(SubSeq(s, 5, Len(s)), sep)

\* the ways a user writes an IBAN down: grouped in fours by spaces, tabs or
\* hyphens, in lower case, with blanks around it
Written(s) ==
    { s, ToLowerCase(s), <<" ">> \o s \o <<" ", " ">>, ToLowerCase(Grouped(s, " ")) }
    \cup { Grouped(s, sep) : sep \in Whitespace \cup Punctuation }

Garbage == { <<"n","o","t"," ","a","n"," ","i","b","a","n","!","!">>, <<" ">>, <<" ", "\t", " ">>,
             <<"D">>, <<" ", "d">>, <<"-", "-">> }

ValidSamples ==
    Canonical \cup { p \o k \o b :
                       p \in { <<"N","L">> }, k \in { <<"9","1">> },
                       b \in { <<"A","B","N","A","0","4","1","7","1","6","4","3","0","0">> } }

Inputs ==
    Substitutions \cup Composed \cup Garbage
        \cup UNION { Written(s) : s \in Truncations \cup ValidSamples }

-----------------------------------------------------------------------------
(* The caller *)

\* what the result variables hold while no call has returned into them
NoValidation == [isValid |-> FALSE, message |-> ""]

NoInfo ==
    [isValid |-> FALSE, countryCode |-> <<>>, bankCode |-> <<>>,
     branchCode |-> <<>>, accountNumber |-> <<>>, message |-> ""]

Init ==
    /\ iban = <<>>
    /\ call = "idle"
    /\ formatted = <<>>
    /\ valid = FALSE
    /\ country = <<>>
    /\ validation = NoValidation
    /\ info = NoInfo

CallFormatIban ==
    /\ call = "idle"
    /\ \E input \in Inputs :
        /\ iban' = input
        /\ call' = "formatIban"
        /\ formatted' = formatIban(input)
    /\ UNCHANGED <<valid, country, validation, info>>

CallValidateIban ==
    /\ call = "idle"
    /\ \E input \in Inputs :
        /\ iban' = input
        /\ call' = "validateIban"
        /\ valid' = validateIban(input)
    /\ UNCHANGED <<formatted, country, validation, info>>

CallGetCountryFromIban ==
    /\ call = "idle"
    /\ \E input \in Inputs :
        /\ iban' = input
        /\ call' = "getCountryFromIban"
        /\ country' = getCountryFromIban(input)
    /\ UNCHANGED <<formatted, valid, validation, info>>

CallGetValidationMessage ==
    /\ call = "idle"
    /\ \E input \in Inputs :
        /\ iban' = input
        /\ call' = "getValidationMessage"
        /\ validation' = getValidationMessage(input)
    /\ UNCHANGED <<formatted, valid, country, info>>

CallExtractBankAccountInfo ==
    /\ call = "idle"
    /\ \E input \in Inputs :
        /\ iban' = input
        /\ call' = "extractBankAccountInfo"
        /\ info' = extractBankAccountInfo(input)
    /\ UNCHANGED <<formatted, valid, country, validation>>

\* the caller takes the result; nothing of the call is kept
Return ==
    /\ call # "idle"
    /\ iban' = <<>>
    /\ call' = "idle"
    /\ formatted' = <<>>
    /\ valid' = FALSE
    /\ country' = <<>>
    /\ validation' = NoValidation
    /\ info' = NoInfo

Next ==
    \/ CallFormatIban
    \/ CallValidateIban
    \/ CallGetCountryFromIban
    \/ CallGetValidationMessage
    \/ CallExtractBankAccountInfo
    \/ Return

Spec == Init /\ [][Next]_vars

-----------------------------------------------------------------------------
(* Reference definitions the properties are stated with *)

IsNormalized(s) == \A i \in DOMAIN s : s[i] \in UpperAlnum

\* number of characters of s in [A-Za-z0-9]
AlnumCount(s) == Cardinality({i \in DOMAIN s : s[i] \in Upper \cup Lower \cup Digit})

\* number of characters of s that are not whitespace
NonBlankCount(s) == Cardinality({i \in DOMAIN s : s[i] \notin Whitespace})

\* A = 10, ..., Z = 35
LetterValue(c) == 9 + IndexOf(UpperSeq, c)

\* the digits (as numbers) of the numeral: a letter gives its two digits
RECURSIVE NumeralDigits(_)
NumeralDigits(s) ==
    IF s = <<>> THEN <<>>
    ELSE LET c == Head(s)
         IN  (IF c \in Upper
              THEN <<LetterValue(c) \div 10, LetterValue(c) % 10>>
              ELSE <<DigitValue(c)>>) \o NumeralDigits(Tail(s))

\* carry := (carry * 10 + digit) % 97 over the digits from the left
RECURSIVE CarryReduce(_, _)
CarryReduce(digits, carry) ==
    IF digits = <<>> THEN carry
    ELSE CarryReduce(Tail(digits), (carry * 10 + Head(digits)) % 97)

\* the first four characters moved to the end, expanded, reduced from 0
Mod97(s) ==
    CarryReduce(NumeralDigits(SubSeq(s, 5, Len(s)) \o SubSeq(s, 1, 4)), 0)

\* ^[A-Z]{2}[0-9A-Z]{2,}$
TwoLettersThenAlnum(s) ==
    /\ Len(s) >= 4
    /\ {s[1], s[2]} \subseteq Upper
    /\ \A i \in 3..Len(s) : s[i] \in UpperAlnum

\* the reason of the first failing rule, for a normalized string
RuleReason(s) ==
    IF Len(s) = 0 THEN "Empty"
    ELSE IF Len(s) < 15 THEN "TooShort"
    ELSE IF Len(s) > 34 THEN "TooLong"
    ELSE IF ~TwoLettersThenAlnum(s) THEN "BadFormat"
    ELSE IF Mod97(s) # 1 THEN "ChecksumFailed"
    ELSE "Valid"

\* the reason a message of getValidationMessage stands for
ReasonOf(message) ==
    IF message = MsgEmpty THEN "Empty"
    ELSE IF message = MsgTooShort THEN "TooShort"
    ELSE IF message = MsgTooLong THEN "TooLong"
    ELSE IF message = MsgCountryCode THEN "BadFormat"
    ELSE IF message = MsgInvalid THEN "ChecksumFailed"
    ELSE "Valid"

\* a normalized string that passes every rule
IsValidIban(s) == IsNormalized(s) /\ RuleReason(s) = "Valid"

CountryOf(s) == SubSeq(s, 1, 2)

\* country code |-> expected length
Registry == { <<<<"D","E">>, 22>>, <<<<"F","R">>, 27>>, <<<<"G","B">>, 22>> }

Registered == { e[1] : e \in Registry }

ExpectedLength(cc) == (CHOOSE e \in Registry : e[1] = cc)[2]

\* positions where two strings of the same length differ
Differences(s, t) == {i \in DOMAIN s : s[i] # t[i]}

-----------------------------------------------------------------------------
(* Properties *)

\* C1: the three canonical IBANs are reported valid, by validateIban (true)
\* and by getValidationMessage (isValid with the message "Valid IBAN").
C1_CanonicalValid ==
    iban \in Canonical =>
        /\ call = "validateIban" => valid = TRUE
        /\ call = "getValidationMessage" => validation = [isValid |-> TRUE, message |-> MsgValid]

C1_Witness ==
    /\ call = "getValidationMessage"
    /\ iban = FR_IBAN
    /\ validation.isValid

\* C2: for a normalized string the reason reported is the one of the first
\* failing rule in the order Empty, TooShort, TooLong, BadFormat,
\* ChecksumFailed, else Valid; isValid and validateIban say Valid or not.
C2_RulePrecedence ==
    IsNormalized(iban) =>
        /\ call = "getValidationMessage" =>
              /\ ReasonOf(validation.message) = RuleReason(iban)
              /\ validation.isValid = (RuleReason(iban) = "Valid")
        /\ call = "validateIban" => valid = (RuleReason(iban) = "Valid")

\* a short string with a bad prefix is TooShort
C2_Witness ==
    /\ call = "getValidationMessage"
    /\ IsNormalized(iban)
    /\ Len(iban) \in 2..14
    /\ iban[1] \in Digit
    /\ validation.message = MsgTooShort

\* C3 as stated: the length rules apply to the number of characters of the
\* raw input that are in [A-Za-z0-9].
C3_LengthOfAlphanumerics ==
    call = "getValidationMessage" =>
        /\ AlnumCount(iban) = 14 => validation.message = MsgTooShort
        /\ AlnumCount(iban) = 35 => validation.message = MsgTooLong
        /\ AlnumCount(iban) \in 15..34 => validation.message \notin {MsgTooShort, MsgTooLong}

\* C3 amended: the length rules apply to the number of characters of the raw
\* input that are not whitespace: 14 is TooShort, 35 is TooLong, 15 to 34
\* is neither.
C3_LengthOfNonBlanks ==
    call = "getValidationMessage" =>
        /\ NonBlankCount(iban) = 14 => validation.message = MsgTooShort
        /\ NonBlankCount(iban) = 35 => validation.message = MsgTooLong
        /\ NonBlankCount(iban) \in 15..34 => validation.message \notin {MsgTooShort, MsgTooLong}

\* 14 characters written with blanks between them
C3_Witness ==
    /\ call = "getValidationMessage"
    /\ NonBlankCount(iban) = 14
    /\ Len(iban) > 14
    /\ validation.message = MsgTooShort

\* C4: a valid IBAN of DE, FR or GB with the country's expected length is
\* decomposed by the country's layout, with the success message; the
\* canonical DE and GB examples give the documented fields.
C4_KnownLayouts ==
    (/\ call = "extractBankAccountInfo"
     /\ IsValidIban(iban)
     /\ CountryOf(iban) \in Registered
     /\ Len(iban) = ExpectedLength(CountryOf(iban))) =>
        /\ info.isValid
        /\ info.message = MsgExtracted
        /\ CountryOf(iban) = <<"D","E">> =>
              /\ info.bankCode = SubSeq(iban, 5, 12)
              /\ info.branchCode = <<>>
              /\ info.accountNumber = SubSeq(iban, 13, 22)
        /\ CountryOf(iban) = <<"F","R">> =>
              /\ info.bankCode = SubSeq(iban, 5, 9)
              /\ info.branchCode = SubSeq(iban, 10, 14)
              /\ info.accountNumber = SubSeq(iban, 15, 25)
        /\ CountryOf(iban) = <<"G","B">> =>
              /\ info.bankCode = SubSeq(iban, 5, 8)
              /\ info.branchCode = SubSeq(iban, 9, 14)
              /\ info.accountNumber = SubSeq(iban, 15, 22)
        /\ iban = DE_IBAN =>
              /\ info.bankCode = <<"3","7","0","4","0","0","4","4">>
              /\ info.branchCode = <<>>
              /\ info.accountNumber = <<"0","5","3","2","0","1","3","0","0","0">>
        /\ iban = GB_IBAN =>
              /\ info.bankCode = <<"N","W","B","K">>
              /\ info.branchCode = <<"6","0","1","6","1","3">>
              /\ info.accountNumber = <<"3","1","9","2","6","8","1","9">>

\* a valid French IBAN other than the canonical one
C4_Witness ==
    /\ call = "extractBankAccountInfo"
    /\ IsValidIban(iban)
    /\ CountryOf(iban) = <<"F","R">>
    /\ Len(iban) = 27
    /\ iban # FR_IBAN
    /\ info.branchCode # <<>>

\* C5: a valid IBAN of a country without a layout is reported as partial,
\* with a non-empty bank code and account number.
C5_UnknownCountryPartial ==
    (/\ call = "extractBankAccountInfo"
     /\ IsValidIban(iban)
     /\ CountryOf(iban) \notin Registered) =>
        /\ info.isValid
        /\ info.message = MsgPartial
        /\ info.bankCode # <<>>
        /\ info.accountNumber # <<>>

\* C6 as stated: for an input that fails validation every field but the
\* status is empty, the country code included.
C6_InvalidAllEmpty ==
    (call = "extractBankAccountInfo" /\ ~validateIban(iban)) =>
        /\ ~info.isValid
        /\ info.countryCode = <<>>
        /\ info.bankCode = <<>>
        /\ info.branchCode = <<>>
        /\ info.accountNumber = <<>>

\* C6 amended: for an input that fails validation the bank code, branch
\* code and account number are empty and the message is the invalid one;
\* the country code is the first two characters of the input without its
\* whitespace, in upper case (empty when fewer than two remain).
C6_InvalidNotSliced ==
    (call = "extractBankAccountInfo" /\ ~validateIban(iban)) =>
        /\ ~info.isValid
        /\ info.message = MsgCannotExtract
        /\ info.bankCode = <<>>
        /\ info.branchCode = <<>>
        /\ info.accountNumber = <<>>
        /\ info.countryCode =
              LET c == SelectSeq(iban, IsNotWhitespace)
              IN  IF Len(c) < 2 THEN <<>> ELSE <<UpperChar(c[1]), UpperChar(c[2])>>

\* a German IBAN with a wrong check digit keeps its country code
C6_Witness ==
    /\ call = "extractBankAccountInfo"
    /\ Len(iban) = 22
    /\ Differences(iban, DE_IBAN) = {4}
    /\ ~info.isValid
    /\ info.countryCode = <<"D","E">>

\* C7 as stated: a canonical IBAN with the character at one position
\* replaced by any other character of [A-Z0-9] is never reported valid.
C7_AnySubstitutionDetected ==
    (/\ call = "getValidationMessage"
     /\ \E s \in Canonical : Len(s) = Len(iban) /\ Cardinality(Differences(s, iban)) = 1
     /\ IsNormalized(iban)) =>
        validation.message \in {MsgInvalid, MsgCountryCode}

\* C7 amended: a canonical IBAN with one character replaced by another
\* character of [A-Z0-9] is reported ChecksumFailed or BadFormat, unless a
\* digit was replaced by a letter.
C7_SubstitutionDetected ==
    (/\ call = "getValidationMessage"
     /\ IsNormalized(iban)
     /\ \E s \in Canonical :
          /\ Len(s) = Len(iban)
          /\ Cardinality(Differences(s, iban)) = 1
          /\ \A i \in Differences(s, iban) : ~(s[i] \in Digit /\ iban[i] \in Upper)) =>
        /\ ~validation.isValid
        /\ validation.message \in {MsgInvalid, MsgCountryCode}

\* a letter of the account part replaced by a digit
C7_Witness ==
    /\ call = "getValidationMessage"
    /\ Len(iban) = 22
    /\ Differences(GB_IBAN, iban) = {6}
    /\ iban[6] \in Digit
    /\ validation.message = MsgInvalid

\* C8: the cleaning step of formatIban is idempotent and its result holds
\* only characters of [A-Z0-9].
C8_NormalizeIdempotent ==
    call = "formatIban" =>
        LET n == CleanedForFormat(iban)
        IN  /\ CleanedForFormat(n) = n
            /\ \A i \in DOMAIN n : n[i] \in UpperAlnum

\* an input with lower-case letters and punctuation
C8_Witness ==
    /\ call = "formatIban"
    /\ \E i \in DOMAIN iban : iban[i] \in Lower
    /\ Cardinality({i \in DOMAIN iban : iban[i] \in Punctuation}) >= 2
    /\ CleanedForFormat(iban) # iban

C10_ChecksumIsMod97 ==
    (/\ call = "validateIban"
     /\ IsNormalized(iban)
     /\ Len(iban) \in 15..34
     /\ TwoLettersThenAlnum(iban)) =>
        valid = (Mod97(iban) = 1)

\* a valid IBAN of 34 characters with letters in its account part
C10_Witness ==
    /\ call = "validateIban"
    /\ IsNormalized(iban)
    /\ Len(iban) = 34
    /\ TwoLettersThenAlnum(iban)
    /\ iban[5] \in Upper
    /\ valid = TRUE

=============================================================================
